---- MODULE Spec2Model ----
(***************************************************************************)
(* Concept instances of ftl for std::shared_ptr<T> and std::unique_ptr<T> *)
(* (include/ftl/memory.h): monoid, monoidA, functor/applicative/monad.    *)
(*                                                                         *)
(* The heap is a sequence of objects; a pointer is an index into it, or    *)
(* nullptr.  A pointer variable of the caller is a slot.  Every library    *)
(* function is an operator from (heap, slots, operand slots) to a call     *)
(* record: the heap and the slots after the call, the returned pointer,    *)
(* the number of allocations and the set of pointers it dereferenced.      *)
(***************************************************************************)
EXTENDS Integers, Sequences, FiniteSets, TLC

VARIABLES
  rev,     \* revision of the header in use
  kind,    \* ownership kind the templates are instantiated at
  T,       \* pointee type the templates are instantiated at
  heap,    \* the objects allocated so far
  slot,    \* the caller's pointer variables
  last,    \* the last library call: its arguments, the state before it, its outcome
  dirty,   \* a pointee was written by the caller since the last library call
  steps    \* calls and writes performed

vars == <<rev, kind, T, heap, slot, last, dirty, steps>>

\* ---------------------------------------------------------------- bounds
MaxVal   == 2      \* pointee payloads are 1..MaxVal
MaxSteps == 2      \* library calls and caller writes in one run

\* ------------------------------------------------------------- vocabulary
nullptr == 0

Revs         == {"memory.h", "part_000"}
Kinds        == {"shared", "unique"}
Pointees     == {"sum", "list"}
OperandSlots == {"a", "b"}
Slots        == OperandSlots \cup {"c", "r"}
Vals         == { <<n>> : n \in 1..MaxVal }

\* A function object: its name and, for a partial application, the argument
\* it has captured.
Fn(name, arg) == [name |-> name, arg |-> arg]
Fns          == {Fn("neg", <<>>), Fn("add1", <<>>)}
NoFn         == Fn("none", <<>>)

\* An optional value as the caller observes it: <<>> when empty, <<v>> when
\* holding v.
Opts0 == {<<>>} \cup { <<v>> : v \in Vals }

\* ---------------------------------------------------------------- pointee
\* T's own monoid operation: sum_monoid<int> adds, a list concatenates.
monoid_append(x, y) ==
  IF T = "sum" THEN << x[1] + y[1] >> ELSE x \o y

\* f applied to one payload: negation, successor, or the partial application
\* of (x, y) -> x - y to its captured x.
Apply1(f, e) ==
  CASE f.name = "neg"  -> 0 - e
    [] f.name = "add1" -> e + 1
    [] f.name = "sub"  -> (IF f.arg = <<>> THEN 0 ELSE Head(f.arg)) - e
    [] OTHER           -> e

\* The functions mapped over a pointee, applied to every payload of it.  The
\* curried (x, y) -> x - y maps x to its partial application, a function
\* object that is held as the x it captured.
RECURSIVE ApplyF(_, _)
ApplyF(f, v) ==
  IF v = <<>> THEN <<>>
  ELSE << Apply1(f, Head(v)) >> \o ApplyF(f, Tail(v))

NewObj(v) == [val |-> v, moved |-> FALSE]

\* What reading through a null pointer yields.
Garbage == << 0 >>

\* *p
Val(h, p) == IF p = nullptr THEN Garbage ELSE h[p].val

\* The pointee after std::move(*p) was consumed: an int keeps its value, a
\* list is left valid but unspecified (u: the build leaves it empty).
MovedFrom(o, u) ==
  [val |-> IF T = "list" /\ u THEN <<>> ELSE o.val, moved |-> TRUE]

\* What the caller sees through pointer p.
Opt(h, p) == IF p = nullptr THEN <<>> ELSE << h[p].val >>

\* ----------------------------------------------------------- call records
Ret(h, s, p, n, d) ==
  [heap |-> h, slot |-> s, res |-> p, allocs |-> n, derefs |-> d, fcalls |-> 0]

\* The call record of a call that invoked the function it was given n times.
Called(c, n) == [c EXCEPT !.fcalls = n]

\* std::move(s[i]) into the returned pointer: the source variable is null after.
Moved(s, i) == [s EXCEPT ![i] = nullptr]

\* ------------------------------------------- monoid<std::shared_ptr<T>>
id_shared == nullptr

\* std::make_shared<T>(v), after dereferencing the pointers in d
make_shared(h, s, v, d) == Ret(Append(h, NewObj(v)), s, Len(h) + 1, 1, d)

\* append_shared combining in place: *a is overwritten and a itself returned.
append_shared_inplace(h, s, i, j) ==
  LET a == s[i]
      b == s[j]
  IN IF a # nullptr /\ b # nullptr
     THEN Ret([h EXCEPT ![a] = NewObj(monoid_append(Val(h, a), Val(h, b)))],
              s, a, 0, {a, b})
     ELSE IF a # nullptr
     THEN Ret(h, s, a, 0, {})
     ELSE Ret(h, s, b, 0, {})

\* append_shared returning a pointer to a new equal object for a lone operand.
append_shared_copying(h, s, i, j) ==
  LET a == s[i]
      b == s[j]
  IN IF a # nullptr /\ b # nullptr
     THEN make_shared(h, s, monoid_append(Val(h, a), Val(h, b)), {a, b})
     ELSE IF a # nullptr THEN make_shared(h, s, Val(h, a), {a})
     ELSE IF b # nullptr THEN make_shared(h, s, Val(h, b), {b})
     ELSE Ret(h, s, nullptr, 0, {})

\* The operands are taken by value: the caller's variables are never touched.
append_shared(h, s, i, j) ==
  LET a == s[i]
      b == s[j]
  IN IF a # nullptr /\ b # nullptr
     THEN make_shared(h, s, monoid_append(Val(h, a), Val(h, b)), {a, b})
     ELSE IF a # nullptr
     THEN Ret(h, s, a, 0, {})
     ELSE Ret(h, s, b, 0, {})

\* ------------------------------------------- monoid<std::unique_ptr<T>>
id_unique == nullptr

\* std::unique_ptr<T>(new T(v)), after dereferencing the pointers in d
make(h, s, v, d) == Ret(Append(h, NewObj(v)), s, Len(h) + 1, 1, d)

\* make(*p)
dup(h, s, p) == make(h, s, Val(h, p), {p})

\* append_cc duplicating b whenever a is empty, without testing b.
append_cc_untested(h, s, i, j) ==
  LET a == s[i]
      b == s[j]
  IN IF a # nullptr /\ b # nullptr
     THEN make(h, s, monoid_append(Val(h, a), Val(h, b)), {a, b})
     ELSE IF a # nullptr THEN dup(h, s, a)
     ELSE dup(h, s, b)

\* append(const unique_ptr&, const unique_ptr&)
append_cc(h, s, i, j) ==
  LET a == s[i]
      b == s[j]
  IN IF a # nullptr /\ b # nullptr
     THEN make(h, s, monoid_append(Val(h, a), Val(h, b)), {a, b})
     ELSE IF a # nullptr THEN dup(h, s, a)
     ELSE IF b # nullptr THEN dup(h, s, b)
     ELSE Ret(h, s, id_unique, 0, {})

\* append_mc with the operands of the pointee's append exchanged.
append_mc_swapped(h, s, i, j) ==
  LET a == s[i]
      b == s[j]
  IN IF a # nullptr /\ b # nullptr
     THEN Ret([h EXCEPT ![a] = NewObj(monoid_append(Val(h, b), Val(h, a)))],
              Moved(s, i), a, 0, {a, b})
     ELSE IF b # nullptr THEN dup(h, s, b)
     ELSE Ret(h, Moved(s, i), a, 0, {})

\* append(unique_ptr&&, const unique_ptr&)
append_mc(h, s, i, j) ==
  LET a == s[i]
      b == s[j]
  IN IF a # nullptr /\ b # nullptr
     THEN Ret([h EXCEPT ![a] = NewObj(monoid_append(Val(h, a), Val(h, b)))],
              Moved(s, i), a, 0, {a, b})
     ELSE IF b # nullptr THEN dup(h, s, b)
     ELSE Ret(h, Moved(s, i), a, 0, {})

\* append_cm dropping its first operand when the second is empty.
append_cm_dropping(h, s, i, j) ==
  LET a == s[i]
      b == s[j]
  IN IF a # nullptr /\ b # nullptr
     THEN Ret([h EXCEPT ![b] = NewObj(monoid_append(Val(h, a), Val(h, b)))],
              Moved(s, j), b, 0, {a, b})
     ELSE Ret(h, Moved(s, j), b, 0, {})

\* append_cm handing out the storage a owns instead of a duplicate.
append_cm_stealing(h, s, i, j) ==
  LET a == s[i]
      b == s[j]
  IN IF a # nullptr /\ b # nullptr
     THEN Ret([h EXCEPT ![b] = NewObj(monoid_append(Val(h, a), Val(h, b)))],
              Moved(s, j), b, 0, {a, b})
     ELSE IF a # nullptr THEN Ret(h, s, a, 0, {})
     ELSE Ret(h, Moved(s, j), b, 0, {})

\* append(const unique_ptr&, unique_ptr&&)
append_cm(h, s, i, j) ==
  LET a == s[i]
      b == s[j]
  IN IF a # nullptr /\ b # nullptr
     THEN Ret([h EXCEPT ![b] = NewObj(monoid_append(Val(h, a), Val(h, b)))],
              Moved(s, j), b, 0, {a, b})
     ELSE IF a # nullptr THEN dup(h, s, a)
     ELSE Ret(h, Moved(s, j), b, 0, {})

\* append_mm duplicating the surviving operand instead of moving it out.
append_mm_dup(h, s, i, j, u) ==
  LET a == s[i]
      b == s[j]
  IN IF a # nullptr /\ b # nullptr
     THEN Ret([h EXCEPT ![b] = MovedFrom(h[b], u),
                        ![a] = NewObj(monoid_append(Val(h, a), Val(h, b)))],
              Moved(s, i), a, 0, {a, b})
     ELSE IF a # nullptr THEN dup(h, Moved(s, i), a)
     ELSE IF b # nullptr THEN dup(h, Moved(s, j), b)
     ELSE Ret(h, s, nullptr, 0, {})

\* append_mm allocating the combined value instead of reusing a's storage.
append_mm_fresh(h, s, i, j, u) ==
  LET a == s[i]
      b == s[j]
  IN IF a # nullptr /\ b # nullptr
     THEN make([h EXCEPT ![b] = MovedFrom(h[b], u), ![a] = MovedFrom(h[a], u)],
               Moved(Moved(s, i), j), monoid_append(Val(h, a), Val(h, b)), {a, b})
     ELSE IF a # nullptr THEN Ret(h, Moved(s, i), a, 0, {})
     ELSE Ret(h, Moved(s, j), b, 0, {})

\* append_mm returning a as it is when both operands hold a value.
append_mm_keepfirst(h, s, i, j, u) ==
  LET a == s[i]
      b == s[j]
  IN IF a # nullptr THEN Ret(h, Moved(s, i), a, 0, {})
     ELSE Ret(h, Moved(s, j), b, 0, {})

\* append(unique_ptr&&, unique_ptr&&): *b is moved from and b keeps pointing
\* at it.
append_mm(h, s, i, j, u) ==
  LET a == s[i]
      b == s[j]
  IN IF a # nullptr /\ b # nullptr
     THEN Ret([h EXCEPT ![b] = MovedFrom(h[b], u),
                        ![a] = NewObj(monoid_append(Val(h, a), Val(h, b)))],
              Moved(s, i), a, 0, {a, b})
     ELSE IF a # nullptr THEN Ret(h, Moved(s, i), a, 0, {})
     ELSE Ret(h, Moved(s, j), b, 0, {})

\* ------------------------- the earlier revision of the monoid instances
append_shared_p0(h, s, i, j) ==
  LET a == s[i]
      b == s[j]
  IN IF a # nullptr
     THEN IF b # nullptr
          THEN make_shared(h, s, monoid_append(Val(h, a), Val(h, b)), {a, b})
          ELSE Ret(h, s, a, 0, {})
     ELSE IF b # nullptr
          THEN Ret(h, s, b, 0, {})
          ELSE Ret(h, s, nullptr, 0, {})

append_cc_p0(h, s, i, j) ==
  LET a == s[i]
      b == s[j]
  IN IF a # nullptr
     THEN IF b # nullptr
          THEN make(h, s, monoid_append(Val(h, a), Val(h, b)), {a, b})
          ELSE dup(h, s, a)
     ELSE IF b # nullptr
          THEN dup(h, s, b)
          ELSE Ret(h, s, id_unique, 0, {})

append_mc_p0(h, s, i, j) ==
  LET a == s[i]
      b == s[j]
  IN IF b # nullptr
     THEN IF a # nullptr
          THEN Ret([h EXCEPT ![a] = NewObj(monoid_append(Val(h, a), Val(h, b)))],
                   Moved(s, i), a, 0, {a, b})
          ELSE dup(h, s, b)
     ELSE Ret(h, Moved(s, i), a, 0, {})

\* append_cm_p0 allocating the combined value instead of reusing b's storage.
append_cm_p0_fresh(h, s, i, j) ==
  LET a == s[i]
      b == s[j]
  IN IF a # nullptr
     THEN IF b # nullptr
          THEN make(h, s, monoid_append(Val(h, a), Val(h, b)), {a, b})
          ELSE dup(h, s, a)
     ELSE Ret(h, Moved(s, j), b, 0, {})

append_cm_p0(h, s, i, j) ==
  LET a == s[i]
      b == s[j]
  IN IF a # nullptr
     THEN IF b # nullptr
          THEN Ret([h EXCEPT ![b] = NewObj(monoid_append(Val(h, a), Val(h, b)))],
                   Moved(s, j), b, 0, {a, b})
          ELSE dup(h, s, a)
     ELSE Ret(h, Moved(s, j), b, 0, {})

append_mm_p0(h, s, i, j, u) ==
  LET a == s[i]
      b == s[j]
  IN IF a # nullptr
     THEN IF b # nullptr
          THEN Ret([h EXCEPT ![b] = MovedFrom(h[b], u),
                             ![a] = NewObj(monoid_append(Val(h, a), Val(h, b)))],
                   Moved(s, i), a, 0, {a, b})
          ELSE Ret(h, Moved(s, i), a, 0, {})
     ELSE Ret(h, Moved(s, j), b, 0, {})

\* ------------------------------------------------------------- monoidA
fail_shared == nullptr

\* orDo_shared preferring b.
orDo_shared_second(h, s, i, j) ==
  LET a == s[i]
      b == s[j]
  IN IF b # nullptr THEN Ret(h, s, b, 0, {}) ELSE Ret(h, s, a, 0, {})

orDo_shared(h, s, i, j) ==
  LET a == s[i]
      b == s[j]
  IN IF a # nullptr THEN Ret(h, s, a, 0, {}) ELSE Ret(h, s, b, 0, {})

\* dup_unique wrapping the raw pointer instead of copying the pointee.
dup_unique_alias(h, s, p) == Ret(h, s, p, 0, {})

dup_unique(h, s, p) ==
  IF p # nullptr THEN Ret(Append(h, NewObj(Val(h, p))), s, Len(h) + 1, 1, {p})
  ELSE Ret(h, s, nullptr, 0, {})

fail_unique == nullptr

orDo_unique(h, s, i, j) ==
  LET a == s[i]
      b == s[j]
  IN IF a # nullptr THEN dup_unique(h, s, a) ELSE dup_unique(h, s, b)

\* --------------------------------------------------------------- monad
pure_shared(h, s, v) == make_shared(h, s, v, {})

\* map_shared without the test of p.
map_shared_unguarded(h, s, f, i) ==
  Called(make_shared(h, s, ApplyF(f, Val(h, s[i])), {s[i]}), 1)

map_shared(h, s, f, i) ==
  LET p == s[i]
  IN IF p # nullptr
     THEN Called(make_shared(h, s, ApplyF(f, Val(h, p)), {p}), 1)
     ELSE Ret(h, s, nullptr, 0, {})

pure_unique(h, s, v) == Ret(Append(h, NewObj(v)), s, Len(h) + 1, 1, {})

\* map_c wrapping the moved pointee without applying f.
map_c_unapplied(h, s, f, i, u) ==
  LET p == s[i]
  IN IF p # nullptr
     THEN Ret(Append([h EXCEPT ![p] = MovedFrom(h[p], u)], NewObj(Val(h, p))),
              s, Len(h) + 1, 1, {p})
     ELSE Ret(h, s, nullptr, 0, {})

\* map(F, const unique_ptr&): f consumes std::move(*p), p keeps its pointee.
map_c(h, s, f, i, u) ==
  LET p == s[i]
  IN IF p # nullptr
     THEN Called(Ret(Append([h EXCEPT ![p] = MovedFrom(h[p], u)],
                            NewObj(ApplyF(f, Val(h, p)))),
                     s, Len(h) + 1, 1, {p}), 1)
     ELSE Ret(h, s, nullptr, 0, {})

\* map_m allocating its result like the const& overload does.
map_m_alloc(h, s, f, i) ==
  LET p == s[i]
  IN IF p # nullptr
     THEN Ret(Append([h EXCEPT ![p] = MovedFrom(h[p], FALSE)],
                     NewObj(ApplyF(f, Val(h, p)))),
              Moved(s, i), Len(h) + 1, 1, {p})
     ELSE Ret(h, Moved(s, i), p, 0, {})

\* map(F, unique_ptr&&), F : T -> T
map_m(h, s, f, i) ==
  LET p == s[i]
  IN IF p # nullptr
     THEN Called(Ret([h EXCEPT ![p] = NewObj(ApplyF(f, Val(h, p)))],
                     Moved(s, i), p, 0, {p}), 1)
     ELSE Ret(h, Moved(s, i), p, 0, {})

\* ---------------------------------------------------------------- bind
\* The functions given to bind, each returning a pointer of the kind:
\* "wrap" allocates an object holding add1 of its argument, "none" returns an
\* empty pointer.
Binders == {"wrap", "none"}

\* k(x): the call record of the function's body.  "id" is the identity join
\* binds with: its argument x is the inner pointer, which it returns.  The
\* "map_" functions are the ones apply binds with: x is the wrapped function
\* (x - y with x captured), mapped over the wrapped argument b by the named
\* overload.
KApply(k, h, s, x, u) ==
  CASE k = "wrap" -> Ret(Append(h, NewObj(ApplyF(Fn("add1", <<>>), x))), s,
                         Len(h) + 1, 1, {})
    [] k = "id"   -> Ret(h, s, Head(x), 0, {})
    [] k = "map_ss" -> map_shared(h, s, Fn("sub", x), "b")
    [] k = "map_cc" -> map_c(h, s, Fn("sub", x), "b", u)
    [] k = "map_mm" -> map_m(h, s, Fn("sub", x), "b")
    [] OTHER      -> Ret(h, s, nullptr, 0, {})

\* The pointee after k consumed std::move(*a): a moved-from unique_ptr (the
\* pointee join binds over) is null.
Consumed(o, k, u) ==
  IF k = "id" THEN [val |-> << nullptr >>, moved |-> TRUE] ELSE MovedFrom(o, u)

\* The call record of bind: k's, with *a among the dereferences and k
\* invoked once.
Bound(c, a) == [c EXCEPT !.derefs = c.derefs \cup {a}, !.fcalls = 1]

\* bind_shared invoking f whether or not a points anywhere.
bind_shared_unguarded(h, s, i, k, u) ==
  Bound(KApply(k, h, s, Val(h, s[i]), u), s[i])

\* monad<std::shared_ptr<T>>::bind
bind_shared(h, s, i, k, u) ==
  LET a == s[i]
  IN IF a # nullptr
     THEN Bound(KApply(k, h, s, Val(h, a), u), a)
     ELSE Ret(h, s, nullptr, 0, {})

\* bind_unique invoking f and dropping what it returned.
bind_unique_discarding(h, s, i, k, u) ==
  LET a == s[i]
  IN IF a # nullptr
     THEN [Bound(KApply(k, [h EXCEPT ![a] = Consumed(h[a], k, u)], s, Val(h, a), u), a)
             EXCEPT !.res = nullptr]
     ELSE Ret(h, s, nullptr, 0, {})

\* monad<std::unique_ptr<T>>::bind: f consumes std::move(*a), a keeps its
\* pointee.
bind_unique(h, s, i, k, u) ==
  LET a == s[i]
  IN IF a # nullptr
     THEN Bound(KApply(k, [h EXCEPT ![a] = Consumed(h[a], k, u)], s, Val(h, a), u), a)
     ELSE Ret(h, s, nullptr, 0, {})

\* join, derived from bind: bind(outer, identity).
join(kd, h, s, i, u) ==
  IF kd = "shared" THEN bind_shared(h, s, i, "id", u)
  ELSE bind_unique(h, s, i, "id", u)

\* ------------------------------------------------------------ foldable
\* The binary functions folded with, (z, x) -> z + |x| and the
\* non-commutative (z, x) -> z - |x|, |x| the total of the pointee's payloads.
Folders == {"plus", "minus"}

RECURSIVE Total(_)
Total(v) == IF v = <<>> THEN 0 ELSE Head(v) + Total(Tail(v))

Apply2(g, x, y) == IF g = "plus" THEN x + Total(y) ELSE x - Total(y)

\* A fold's call record: it returns the value out and no pointer, r is left.
Folded(h, s, out, n, d) ==
  [heap |-> h, slot |-> s, res |-> s["r"], allocs |-> 0, derefs |-> d,
   fcalls |-> n, out |-> << out >>]

foldl_shared(h, s, g, z, i) ==
  LET p == s[i]
  IN IF p # nullptr THEN Folded(h, s, Apply2(g, z, Val(h, p)), 1, {p})
     ELSE Folded(h, s, z, 0, {})

\* foldr_shared handing fn the pointee first and the seed second.
foldr_shared_flipped(h, s, g, z, i) ==
  LET p == s[i]
  IN IF p # nullptr
     THEN Folded(h, s, IF g = "plus" THEN Total(Val(h, p)) + z
                       ELSE Total(Val(h, p)) - z, 1, {p})
     ELSE Folded(h, s, z, 0, {})

foldr_shared(h, s, g, z, i) ==
  LET p == s[i]
  IN IF p # nullptr THEN Folded(h, s, Apply2(g, z, Val(h, p)), 1, {p})
     ELSE Folded(h, s, z, 0, {})

foldl_unique(h, s, g, z, i) ==
  LET p == s[i]
  IN IF p # nullptr THEN Folded(h, s, Apply2(g, z, Val(h, p)), 1, {p})
     ELSE Folded(h, s, z, 0, {})

foldr_unique(h, s, g, z, i) ==
  LET p == s[i]
  IN IF p # nullptr THEN Folded(h, s, Apply2(g, z, Val(h, p)), 1, {p})
     ELSE Folded(h, s, z, 0, {})

\* ------------------------------------------------------------ dispatch
\* The overloads of append the kind offers: by value for shared_ptr; for
\* unique_ptr c is const&, m is &&, first letter for a, second for b.
Overloads(k) == IF k = "shared" THEN {"ss"} ELSE {"cc", "mc", "cm", "mm"}

\* Operands passed by transfer (&&) under overload ov.
Transferred(ov, i, j) ==
  (IF ov \in {"mc", "mm"} THEN {i} ELSE {}) \cup
  (IF ov \in {"cm", "mm"} THEN {j} ELSE {})

\* Operands passed by alias (const&) under overload ov.
Aliased(ov, i, j) ==
  (IF ov \in {"cc", "cm"} THEN {i} ELSE {}) \cup
  (IF ov \in {"cc", "mc"} THEN {j} ELSE {})

\* Overload resolution of monoid<P>::append in revision rv.
append(rv, ov, h, s, i, j, u) ==
  IF rv = "memory.h"
  THEN CASE ov = "ss" -> append_shared(h, s, i, j)
         [] ov = "cc" -> append_cc(h, s, i, j)
         [] ov = "mc" -> append_mc(h, s, i, j)
         [] ov = "cm" -> append_cm(h, s, i, j)
         [] ov = "mm" -> append_mm(h, s, i, j, u)
  ELSE CASE ov = "ss" -> append_shared_p0(h, s, i, j)
         [] ov = "cc" -> append_cc_p0(h, s, i, j)
         [] ov = "mc" -> append_mc_p0(h, s, i, j)
         [] ov = "cm" -> append_cm_p0(h, s, i, j)
         [] ov = "mm" -> append_mm_p0(h, s, i, j, u)

\* ------------------------------------------------------------- chains
\* The operands of a chain x1 ^ x2 ^ ... are the caller's variables, written
\* 1 for a and 2 for b.
MaxChain == 6
Var(n) == IF n = 1 THEN "a" ELSE "b"

\* The overload x ^ y reaches: a variable binds to const&, the temporary
\* result of an inner ^ binds to &&.
Forward(kd, ltmp, rtmp) ==
  IF kd = "shared" THEN "ss"
  ELSE CASE ltmp /\ rtmp   -> "mm"
         [] ltmp /\ ~rtmp  -> "mc"
         [] ~ltmp /\ rtmp  -> "cm"
         [] OTHER          -> "cc"

\* Every way of evaluating the chain xs under some parenthesisation, the left
\* side before the right: the heap after it, the result, whether the result
\* is a temporary, the splits taken (outermost first) and the totals of the
\* calls made.  The temporaries of a call sit in c and r while it runs.
RECURSIVE Chains(_, _, _, _, _)
Chains(rv, kd, h, s, xs) ==
  IF Len(xs) = 1
  THEN {[heap |-> h, res |-> s[Var(xs[1])], tmp |-> FALSE, x |-> Var(xs[1]),
         shape |-> <<>>, allocs |-> 0, derefs |-> {}]}
  ELSE UNION { UNION { {
         LET st == [s EXCEPT !["c"] = l.res, !["r"] = r.res]
             c  == append(rv, Forward(kd, l.tmp, r.tmp), r.heap, st,
                          IF l.tmp THEN "c" ELSE l.x,
                          IF r.tmp THEN "r" ELSE r.x, FALSE)
         IN [heap |-> c.heap, res |-> c.res, tmp |-> TRUE, x |-> "r",
             shape |-> <<k>> \o l.shape \o r.shape,
             allocs |-> l.allocs + r.allocs + c.allocs,
             derefs |-> l.derefs \cup r.derefs \cup c.derefs]
         : r \in Chains(rv, kd, l.heap, s, SubSeq(xs, k + 1, Len(xs))) }
       : l \in Chains(rv, kd, h, s, SubSeq(xs, 1, k)) }
     : k \in 1..(Len(xs) - 1) }

\* ------------------------------------------------------------- the caller
NoCall ==
  [op |-> "init", ov |-> "--", i |-> "a", j |-> "a", f |-> NoFn, v |-> <<>>,
   heap |-> <<>>, slot |-> [x \in Slots |-> nullptr], res |-> nullptr,
   allocs |-> 0, derefs |-> {}, lhs |-> <<>>, rhs |-> <<>>,
   fcalls |-> 0, k |-> "--", out |-> <<>>,
   other |-> Ret(<<>>, [x \in Slots |-> nullptr], nullptr, 0, {})]

\* The caller's variables a and b before the first call: each empty or
\* owning an object; a shared b may alias a.
Init ==
  \E rv \in Revs, k \in Kinds, t \in Pointees, oa \in Opts0, ob \in Opts0,
     xb \in {"own", "a"} :
    LET h1 == IF oa = <<>> THEN <<>> ELSE << NewObj(oa[1]) >>
        pa == IF oa = <<>> THEN nullptr ELSE 1
        h2 == IF xb = "own" /\ ob # <<>> THEN Append(h1, NewObj(ob[1])) ELSE h1
        pb == IF xb = "a" THEN pa ELSE IF ob = <<>> THEN nullptr ELSE Len(h2)
    IN /\ k = "unique" => xb = "own"
       /\ xb # "own" => ob = <<>> /\ oa # <<>>
       /\ rev = rv
       /\ kind = k
       /\ T = t
       /\ heap = h2
       /\ slot = [x \in Slots |->
                    CASE x = "a" -> pa [] x = "b" -> pb [] OTHER -> nullptr]
       /\ last = NoCall
       /\ dirty = FALSE
       /\ steps = 0

\* What is kept of call c: its arguments, the state it started in and its
\* outcome.
Record(op, ov, i, j, f, v, c) ==
  [NoCall EXCEPT !.op = op, !.ov = ov, !.i = i, !.j = j, !.f = f, !.v = v,
                 !.heap = heap, !.slot = slot, !.res = c.res,
                 !.allocs = c.allocs, !.derefs = c.derefs,
                 !.fcalls = c.fcalls]

\* auto r = <call>: the call's effects, its result stored in r.
Step(rec, c) ==
  /\ steps < MaxSteps
  /\ steps' = steps + 1
  /\ heap' = c.heap
  /\ slot' = [c.slot EXCEPT !["r"] = c.res]
  /\ last' = rec
  /\ dirty' = FALSE
  /\ UNCHANGED <<rev, kind, T>>

\* The same for a call whose result the caller only inspects: the run ends
\* with it.
Final(rec, c) ==
  /\ steps < MaxSteps
  /\ steps' = MaxSteps
  /\ heap' = c.heap
  /\ slot' = [c.slot EXCEPT !["r"] = c.res]
  /\ last' = rec
  /\ dirty' = FALSE
  /\ UNCHANGED <<rev, kind, T>>

Commit(op, ov, i, j, f, v, c) == Step(Record(op, ov, i, j, f, v, c), c)

Identity ==
  Commit("id", "--", "a", "a", NoFn, <<>>,
         Ret(heap, slot, IF kind = "shared" THEN id_shared ELSE id_unique, 0, {}))

OtherRev(rv) == IF rv = "memory.h" THEN "part_000" ELSE "memory.h"

\* r = append(x, y) with x, y among the caller's variables; an operand given
\* by transfer is not also given as the other operand.  What the other
\* revision's append returns for the same call is kept beside it.
AppendCall ==
  \E ov \in Overloads(kind), i \in OperandSlots, j \in OperandSlots,
     u \in BOOLEAN :
    LET c == append(rev, ov, heap, slot, i, j, u)
    IN /\ Transferred(ov, i, j) # {} => i # j
       /\ Step([Record("append", ov, i, j, NoFn, <<>>, c)
                  EXCEPT !.other = append(OtherRev(rev), ov, heap, slot, i, j, u)],
               c)

Fail ==
  /\ rev = "memory.h"
  /\ Commit("fail", "--", "a", "a", NoFn, <<>>,
            Ret(heap, slot, IF kind = "shared" THEN fail_shared ELSE fail_unique,
                0, {}))

OrDo ==
  /\ rev = "memory.h"
  /\ \E i \in OperandSlots, j \in OperandSlots :
       Commit("orDo", IF kind = "shared" THEN "ss" ELSE "cc", i, j, NoFn, <<>>,
              IF kind = "shared" THEN orDo_shared(heap, slot, i, j)
              ELSE orDo_unique(heap, slot, i, j))

\* The monad instances are the same text in both revisions: they are run
\* in memory.h.
Pure ==
  \E v \in Vals :
    /\ rev = "memory.h"
    /\ Commit("pure", "--", "a", "a", NoFn, v,
              IF kind = "shared" THEN pure_shared(heap, slot, v)
              ELSE pure_unique(heap, slot, v))

MapOverloads(k) == IF k = "shared" THEN {"ss"} ELSE {"cc", "mm"}

Map ==
  \E ov \in MapOverloads(kind), i \in OperandSlots, f \in Fns, u \in BOOLEAN :
    /\ rev = "memory.h"
    /\ Commit("map", ov, i, i, f, <<>>,
              CASE ov = "ss" -> map_shared(heap, slot, f, i)
                [] ov = "cc" -> map_c(heap, slot, f, i, u)
                [] ov = "mm" -> map_m(heap, slot, f, i))

Bind ==
  \E i \in OperandSlots, k \in Binders, u \in BOOLEAN :
    LET c == IF kind = "shared" THEN bind_shared(heap, slot, i, k, u)
             ELSE bind_unique(heap, slot, i, k, u)
    IN /\ rev = "memory.h"
       /\ Step([Record("bind", IF kind = "shared" THEN "ss" ELSE "cc", i, i,
                        NoFn, <<>>, c) EXCEPT !.k = k], c)

\* apply, derived from bind: bind(wf, \fn -> map(fn, wa)); wf is variable i,
\* wa is b, mo the map overload the function reaches.
apply(kd, h, s, i, mo, u) ==
  IF kd = "shared" THEN bind_shared(h, s, i, "map_ss", u)
  ELSE bind_unique(h, s, i, IF mo = "mm" THEN "map_mm" ELSE "map_cc", u)

\* r = f % a * b with f = (x, y) -> x - y curried: map wraps the partial
\* application over a into the temporary c, apply runs it over b.
Apply ==
  \E mo \in MapOverloads(kind), u \in BOOLEAN :
    LET cur == Fn("curry", <<>>)
        c1  == IF kind = "shared" THEN map_shared(heap, slot, cur, "a")
               ELSE map_c(heap, slot, cur, "a", u)
        c2  == apply(kind, c1.heap, [c1.slot EXCEPT !["c"] = c1.res], "c", mo, u)
    IN /\ rev = "memory.h"
       /\ steps = 0
       /\ Final([Record("apply", mo, "a", "b", Fn("sub", <<>>), <<>>, c2)
                  EXCEPT !.k = "map", !.allocs = c1.allocs + c2.allocs,
                         !.derefs = c1.derefs \cup c2.derefs,
                         !.fcalls = c1.fcalls + c2.fcalls],
               c2)

\* r = join(c), c made for the call: empty, or pointing at a new object that
\* holds the pointer a held (moved out of a when unique).
Join ==
  \E held \in BOOLEAN, u \in BOOLEAN :
    LET h0 == IF held THEN Append(heap, NewObj(<< slot["a"] >>)) ELSE heap
        s0 == [(IF held /\ kind = "unique" THEN Moved(slot, "a") ELSE slot)
                 EXCEPT !["c"] = IF held THEN Len(h0) ELSE nullptr]
        c  == join(kind, h0, s0, "c", u)
    IN /\ rev = "memory.h"
       /\ steps = 0
       /\ Final([Record("join", IF kind = "shared" THEN "ss" ELSE "cc", "c", "c",
                        NoFn, <<>>, c) EXCEPT !.k = "id", !.heap = h0, !.slot = s0],
               c)

\* foldl(g, z, x) or foldr(g, z, x) on the caller's first variables; part_000
\* has the shared instance only.
Fold ==
  \E op \in {"foldl", "foldr"}, g \in Folders, z \in 1..MaxVal, i \in OperandSlots :
    LET c == CASE op = "foldl" /\ kind = "shared" -> foldl_shared(heap, slot, g, z, i)
               [] op = "foldr" /\ kind = "shared" -> foldr_shared(heap, slot, g, z, i)
               [] op = "foldl" /\ kind = "unique" -> foldl_unique(heap, slot, g, z, i)
               [] op = "foldr" /\ kind = "unique" -> foldr_unique(heap, slot, g, z, i)
    IN /\ rev = "memory.h" \/ kind = "shared"
       /\ steps = 0
       /\ Final([Record(op, IF kind = "shared" THEN "ss" ELSE "cc", i, i,
                        Fn(g, <<>>), << z >>, c) EXCEPT !.out = c.out], c)

\* r = x1 ^ x2 ^ ... ^ xn over the caller's first variables, parenthesised in
\* any way, with the integer-sum pointee.
Chain ==
  /\ T = "sum"
  /\ steps = 0
  /\ \E n \in 2..MaxChain :
       \E xs \in [1..n -> 1..2] :
         \E c \in Chains(rev, kind, heap, slot, xs) :
           Final([NoCall EXCEPT !.op = "chain", !.v = xs, !.out = c.shape,
                                !.heap = heap, !.slot = slot, !.res = c.res,
                                !.allocs = c.allocs, !.derefs = c.derefs],
                 [heap |-> c.heap, slot |-> slot, res |-> c.res])

\* *x = v by the caller, through one of its variables, after a call (before
\* the first call it only makes another initial state).
Mutate ==
  \E x \in OperandSlots, v \in Vals :
    /\ steps < MaxSteps
    /\ last.op # "init"
    /\ ~dirty
    /\ slot[x] # nullptr
    /\ heap' = [heap EXCEPT ![slot[x]] = NewObj(v)]
    /\ dirty' = TRUE
    /\ steps' = steps + 1
    /\ UNCHANGED <<rev, kind, T, slot, last>>

\* The associativity law on a, b and a third operand c the check makes:
\* append(append(a,b),c) against append(a,append(b,c)), each side run on its
\* own copy of the operands with any overload at each of the four calls; the
\* inner result is held in r.  Both results are compared and dropped, and
\* the run ends.
Assoc ==
  \E o1 \in Overloads(kind), o2 \in Overloads(kind), o3 \in Overloads(kind),
     o4 \in Overloads(kind), oc \in Opts0, u \in BOOLEAN :
    LET h0 == IF oc = <<>> THEN heap ELSE Append(heap, NewObj(oc[1]))
        s0 == [slot EXCEPT !["c"] = IF oc = <<>> THEN nullptr ELSE Len(h0),
                           !["r"] = nullptr]
        l1 == append(rev, o1, h0, s0, "a", "b", u)
        l2 == append(rev, o2, l1.heap, [l1.slot EXCEPT !["r"] = l1.res], "r", "c", u)
        r1 == append(rev, o3, h0, s0, "b", "c", u)
        r2 == append(rev, o4, r1.heap, [r1.slot EXCEPT !["r"] = r1.res], "a", "r", u)
    IN /\ steps = 0
       /\ steps' = MaxSteps
       /\ last' = [NoCall EXCEPT !.op = "assoc", !.heap = h0, !.slot = s0,
                                 !.lhs = Opt(l2.heap, l2.res),
                                 !.rhs = Opt(r2.heap, r2.res),
                                 !.derefs = l1.derefs \cup l2.derefs \cup
                                            r1.derefs \cup r2.derefs]
       /\ dirty' = FALSE
       /\ UNCHANGED <<rev, kind, T, heap, slot>>

Next ==
  \/ Identity
  \/ AppendCall
  \/ Fail
  \/ OrDo
  \/ Pure
  \/ Map
  \/ Bind
  \/ Join
  \/ Apply
  \/ Fold
  \/ Chain
  \/ Mutate
  \/ Assoc

Spec == Init /\ [][Next]_vars

TypeOK ==
  /\ rev \in Revs
  /\ kind \in Kinds
  /\ T \in Pointees
  /\ \A x \in Slots : slot[x] \in 0..Len(heap)
  /\ dirty \in BOOLEAN
  /\ steps \in 0..MaxSteps

\* ============================================================ properties
\* The operand x of the last call as the caller saw it before the call.
Pre(x) == Opt(last.heap, last.slot[x])

\* What r holds now.
Res == Opt(heap, slot["r"])

\* The object r points at did not exist before the last call.
Fresh ==
  /\ slot["r"] = Len(last.heap) + 1
  /\ Len(heap) = Len(last.heap) + 1
  /\ last.allocs = 1

\* The last call allocated nothing.
NoAlloc == Len(heap) = Len(last.heap) /\ last.allocs = 0

BothHeld == Pre(last.i) # <<>> /\ Pre(last.j) # <<>>

\* Variable x and its pointee are as they were before the last call.
Kept(x) ==
  /\ slot[x] = last.slot[x]
  /\ slot[x] # nullptr => heap[slot[x]] = last.heap[slot[x]]

\* C1: id() is empty, and append follows the decision table on values, for
\* the shared overload and the four unique overloads: empty with empty is
\* empty, a held value with empty is that value, two held values x and y
\* give monoid_append(x, y).
C1_AppendTable ==
  /\ last.op = "id" => slot["r"] = nullptr
  /\ (last.op = "append" /\ ~dirty) =>
       LET x == Pre(last.i)
           y == Pre(last.j)
       IN Res = IF x = <<>> THEN y
                ELSE IF y = <<>> THEN x
                ELSE << monoid_append(x[1], y[1]) >>

C1_Witness ==
  /\ last.op = "append" /\ last.ov = "cm" /\ T = "list" /\ rev = "memory.h"
  /\ Pre(last.i) = << <<1>> >>
  /\ Pre(last.j) = << <<2>> >>
  /\ Res = << <<1, 2>> >>

\* C2: for both kinds and all eight empty/held combinations of a, b, c,
\* append(append(a,b),c) and append(a,append(b,c)) are both empty or hold
\* equal values (the pointee's append, addition or concatenation, being
\* associative).
C2_Associative ==
  last.op = "assoc" => last.lhs = last.rhs

C2_Witness ==
  /\ last.op = "assoc" /\ kind = "unique" /\ T = "list"
  /\ Opt(last.heap, last.slot["a"]) = << <<1>> >>
  /\ Opt(last.heap, last.slot["b"]) = << <<2>> >>
  /\ Opt(last.heap, last.slot["c"]) = << <<1>> >>
  /\ last.lhs = << <<1, 2, 1>> >>

\* C3: the shared append of two held values returns a freshly allocated
\* object, distinct from both operands' referents; the call writes neither
\* referent, and writes to either referent afterwards leave the result's
\* value as it was.
C3_SharedFresh ==
  (last.op = "append" /\ last.ov = "ss" /\ BothHeld) =>
    /\ Fresh
    /\ slot["r"] \notin {last.slot[last.i], last.slot[last.j]}
    /\ ~dirty => Kept(last.i) /\ Kept(last.j)
    /\ Res = << monoid_append(Pre(last.i)[1], Pre(last.j)[1]) >>

C3_Witness ==
  /\ last.op = "append" /\ last.ov = "ss" /\ BothHeld
  /\ dirty
  /\ heap[last.slot[last.i]] # last.heap[last.slot[last.i]]

\* C4 as stated: in each of the four unique overloads, append of two held
\* values returns newly allocated storage, not storage an operand owned.
C4_AlwaysNew ==
  (last.op = "append" /\ kind = "unique" /\ BothHeld) => Fresh

\* C4 amended: append of two held unique values holds monoid_append(x, y);
\* the const&/const& overload returns newly allocated storage, while an
\* overload taking an operand by && allocates nothing and returns the
\* storage of that operand (of a when both are &&), overwritten in place.
C4_NewUnlessTransferred ==
  (last.op = "append" /\ kind = "unique" /\ BothHeld) =>
    /\ Res = << monoid_append(Pre(last.i)[1], Pre(last.j)[1]) >>
    /\ last.ov = "cc" => Fresh
    /\ last.ov \in {"mc", "mm"} => NoAlloc /\ slot["r"] = last.slot[last.i]
    /\ last.ov = "cm" => NoAlloc /\ slot["r"] = last.slot[last.j]

C4_Witness ==
  /\ last.op = "append" /\ last.ov = "mm" /\ BothHeld
  /\ slot["r"] = last.slot[last.i]
  /\ Res # Pre(last.i)

\* C5: a unique operand given by && that is the only held operand is moved
\* into the result: the result owns the storage the operand owned and the
\* call allocates nothing (&&/const&, const&/&& and &&/&&).
C5_SurvivorMoved ==
  (last.op = "append" /\ kind = "unique") =>
    \A x \in Transferred(last.ov, last.i, last.j) :
      LET y == IF x = last.i THEN last.j ELSE last.i
      IN (Pre(x) # <<>> /\ Pre(y) = <<>>) =>
           NoAlloc /\ slot["r"] = last.slot[x]

C5_Witness ==
  /\ last.op = "append" /\ last.ov = "mm"
  /\ Pre(last.i) = <<>> /\ Pre(last.j) # <<>>
  /\ slot["r"] = last.slot[last.j]

\* C6: a unique operand given by const& is the caller's after the call: in
\* const&/const&, &&/const& and const&/&&, for every empty/held combination,
\* it is empty or held as before with the same value, and the result does
\* not own its storage.
C6_AliasRetained ==
  (last.op = "append" /\ kind = "unique" /\ ~dirty) =>
    \A x \in Aliased(last.ov, last.i, last.j) :
      /\ Kept(x)
      /\ slot[x] # nullptr => slot["r"] # slot[x]

C6_Witness ==
  /\ last.op = "append" /\ last.ov = "cm" /\ ~dirty
  /\ Pre(last.i) # <<>> /\ Pre(last.j) = <<>>
  /\ Res = Pre(last.i)

\* C7: fail() is empty; orDo(a, b) holds a's value when a is held whatever
\* b is, and equals b (b's value, or empty) when a is empty; both kinds.
C7_OrDoTable ==
  /\ last.op = "fail" => slot["r"] = nullptr
  /\ (last.op = "orDo" /\ ~dirty) =>
       Res = IF Pre(last.i) # <<>> THEN Pre(last.i) ELSE Pre(last.j)

C7_Witness ==
  /\ last.op = "orDo" /\ kind = "shared" /\ ~dirty
  /\ Pre(last.i) = << <<1>> >>
  /\ Pre(last.j) = << <<2>> >>
  /\ Res = << <<1>> >>

\* C8: the unique orDo returns a fresh duplicate: a held result is newly
\* allocated storage, not a's and not b's, and a and b are empty or held
\* with the same value as before.
C8_OrDoDuplicates ==
  (last.op = "orDo" /\ kind = "unique") =>
    /\ slot["r"] # nullptr =>
         Fresh /\ slot["r"] \notin {last.slot[last.i], last.slot[last.j]}
    /\ ~dirty => Kept(last.i) /\ Kept(last.j)

C8_Witness ==
  /\ last.op = "orDo" /\ kind = "unique" /\ ~dirty
  /\ Pre(last.i) = <<>> /\ Pre(last.j) # <<>>
  /\ Res = Pre(last.j)
  /\ slot["r"] # slot[last.j]

\* C9: map(f, empty) is empty and map(f, holding x) holds f(x), for the
\* shared map and both unique overloads; pure(v) holds v.
C9_MapPure ==
  /\ last.op = "map" =>
       Res = IF Pre(last.i) = <<>> THEN <<>>
             ELSE << ApplyF(last.f, Pre(last.i)[1]) >>
  /\ last.op = "pure" => Res = << last.v >>

C9_Witness ==
  /\ last.op = "map" /\ last.ov = "cc" /\ last.f.name = "neg"
  /\ Pre(last.i) = << <<2>> >>
  /\ Res = << << 0 - 2 >> >>

\* C10: the unique map over an operand given by && (f : T -> T) reuses the
\* operand's storage: no allocation, the result owns the storage the
\* operand owned, which holds f of the old value, and the operand is empty
\* afterwards; an empty operand gives an empty result.
C10_MapInPlace ==
  (last.op = "map" /\ last.ov = "mm") =>
    /\ NoAlloc
    /\ slot["r"] = last.slot[last.i]
    /\ slot[last.i] = nullptr
    /\ Res = IF Pre(last.i) = <<>> THEN <<>>
             ELSE << ApplyF(last.f, Pre(last.i)[1]) >>

C10_Witness ==
  /\ last.op = "map" /\ last.ov = "mm" /\ last.f.name = "add1"
  /\ Pre(last.i) = << <<1>> >>
  /\ slot["r"] = last.slot[last.i]
  /\ Res = << <<2>> >>

\* C11: for both kinds, bind of an empty pointer is empty and does not invoke
\* f; bind of a pointer holding x returns what f(x) returned, not wrapped
\* again: empty when f(x) is empty, f(x)'s object when it is not.
C11_Bind ==
  last.op = "bind" =>
    IF Pre(last.i) = <<>>
    THEN Res = <<>> /\ last.fcalls = 0 /\ NoAlloc
    ELSE /\ last.fcalls = 1
         /\ last.k = "none" => Res = <<>> /\ NoAlloc
         /\ last.k = "wrap" =>
              Fresh /\ Res = << ApplyF(Fn("add1", <<>>), Pre(last.i)[1]) >>

C11_Witness ==
  /\ last.op = "bind" /\ kind = "unique" /\ last.k = "wrap"
  /\ Pre(last.i) = << <<1>> >>
  /\ Res = << <<2>> >>

\* C12: for both kinds join, derived as bind(outer, identity), gives the
\* inner value for a pointer to a pointer holding x, and empty for a pointer
\* to an empty pointer and for an empty pointer (on return, before the
\* caller writes through a shared alias).
C12_Join ==
  (last.op = "join" /\ ~dirty) =>
    Res = IF Pre("c") = <<>> THEN <<>>
          ELSE Opt(last.heap, Head(Head(Pre("c"))))

C12_Witness ==
  /\ last.op = "join" /\ kind = "unique"
  /\ Pre("c") # <<>>
  /\ Head(Head(Pre("c"))) # nullptr
  /\ Res = << <<2>> >>

\* C13: for both kinds apply, derived as bind over the wrapped function then
\* map over the wrapped argument, is empty when either is empty; the curried
\* f(x, y) = x - y mapped over a and applied to b holds f(a, b) when both are
\* non-empty and is empty otherwise.
C13_Apply ==
  last.op = "apply" =>
    Res = IF BothHeld
          THEN << << Head(Head(Pre("a"))) - Head(Head(Pre("b"))) >> >>
          ELSE <<>>

C13_Witness ==
  /\ last.op = "apply" /\ kind = "shared"
  /\ Pre("a") = << <<2>> >> /\ Pre("b") = << <<1>> >>
  /\ Res = << <<1>> >>

\* C14: for both kinds foldl and foldr of an empty pointer return the seed
\* and do not apply f; of a pointer holding x they apply f once and return
\* f(seed, x), the seed first, also for the non-commutative f.
C14_Fold ==
  last.op \in {"foldl", "foldr"} =>
    IF Pre(last.i) = <<>>
    THEN last.out = last.v /\ last.fcalls = 0
    ELSE /\ last.fcalls = 1
         /\ last.f.name = "plus" =>
              last.out = << Head(last.v) + Total(Head(Pre(last.i))) >>
         /\ last.f.name = "minus" =>
              last.out = << Head(last.v) - Total(Head(Pre(last.i))) >>

C14_Witness ==
  /\ last.op = "foldr" /\ last.f.name = "minus"
  /\ last.v = <<1>> /\ Pre(last.i) = << <<2>> >>
  /\ last.out = << -1 >>

\* C15: no operation of any instance dereferences an empty operand: every
\* pointer the last call read or wrote through, the duplicate helpers'
\* included, was non-empty.
C15_NoNullDeref == nullptr \notin last.derefs

C15_Witness ==
  /\ last.op = "append" /\ last.ov = "cc"
  /\ Pre(last.i) = <<>> /\ Pre(last.j) # <<>>
  /\ last.derefs = {last.slot[last.j]}

\* Variable x is empty or points at an object that has not been moved from.
Valid(h, s, x) == s[x] = nullptr \/ ~h[s[x]].moved

\* C16: after any operation every operand that was valid when passed is
\* either empty or non-empty holding a value that has not been moved out
\* (map and bind of a unique operand by alias and both operands of the
\* &&/&& append included).
C16_OperandsValid ==
  (last.op \notin {"init", "assoc"} /\ ~dirty) =>
    \A x \in {last.i, last.j} :
      Valid(last.heap, last.slot, x) => Valid(heap, slot, x)

\* C17: a unique operand given by && to append or to the in-place map that
\* held a value (which the call moves into its result or consumes) is empty
\* when the call returns, both operands of the &&/&& append included.
C17_TransferredEmptied ==
  /\ (last.op = "append" /\ kind = "unique") =>
       \A x \in Transferred(last.ov, last.i, last.j) :
         Pre(x) # <<>> => slot[x] = nullptr
  /\ (last.op = "map" /\ last.ov = "mm") =>
       (Pre(last.i) # <<>> => slot[last.i] = nullptr)

\* The sum of the values the held operands of the chain xs had before it.
RECURSIVE ChainSum(_)
ChainSum(xs) ==
  IF xs = <<>> THEN 0
  ELSE (IF Pre(Var(Head(xs))) = <<>> THEN 0 ELSE Head(Head(Pre(Var(Head(xs))))))
       + ChainSum(Tail(xs))

\* C18: with the integer-sum pointee a chain of appends over empty and held
\* operands, in any parenthesisation (so through any mix of overloads) and
\* with variables reused, is empty when every operand is empty and otherwise
\* holds the sum of the held operands; the variables are left as they were.
C18_ChainSum ==
  last.op = "chain" =>
    /\ Res = IF \A k \in 1..Len(last.v) : Pre(Var(last.v[k])) = <<>>
             THEN <<>>
             ELSE << << ChainSum(last.v) >> >>
    /\ Kept("a") /\ Kept("b")

\* ((id ^ 2) ^ id) ^ (id ^ (2 ^ id)) with unique pointers holds 4.
C18_Witness ==
  /\ last.op = "chain" /\ kind = "unique"
  /\ last.v = <<1, 2, 1, 1, 2, 1>> /\ last.out = <<3, 2, 1, 1, 1>>
  /\ Pre("a") = <<>> /\ Pre("b") = << <<2>> >>
  /\ Res = << <<4>> >>

\* C19: shared append with exactly one held operand returns that operand
\* itself: r points at the operand's object, nothing is allocated, and what
\* the caller writes through the operand afterwards is read through r;
\* shared orDo returns the chosen operand's own object without allocating.
C19_SharedAlias ==
  /\ (last.op = "append" /\ kind = "shared") =>
       \A x \in {last.i, last.j} :
         LET y == IF x = last.i THEN last.j ELSE last.i
         IN (Pre(x) # <<>> /\ Pre(y) = <<>>) =>
              /\ slot["r"] = last.slot[x]
              /\ NoAlloc
              /\ Res = Opt(heap, slot[x])
  /\ (last.op = "orDo" /\ kind = "shared") =>
       /\ slot["r"] = IF Pre(last.i) # <<>> THEN last.slot[last.i]
                      ELSE last.slot[last.j]
       /\ NoAlloc

C19_Witness ==
  /\ last.op = "append" /\ kind = "shared" /\ dirty
  /\ Pre(last.i) = <<>> /\ Pre(last.j) = << <<1>> >>
  /\ slot["r"] = slot[last.j]
  /\ Res = << <<2>> >>

\* C20: memory.h and part_000 agree on append, for the shared overload and
\* the four unique ones and every empty/held combination: the same result
\* (empty, or holding the same value), each operand left in the same state
\* (empty, or holding the same value, moved-from or not), and the same
\* number of allocations.
C20_RevisionsAgree ==
  (last.op = "append" /\ ~dirty) =>
    LET o == last.other
    IN /\ Opt(o.heap, o.res) = Res
       /\ \A x \in {last.i, last.j} :
            /\ (o.slot[x] = nullptr) <=> (slot[x] = nullptr)
            /\ slot[x] # nullptr => o.heap[o.slot[x]] = heap[slot[x]]
       /\ o.allocs = last.allocs

C20_Witness ==
  /\ last.op = "append" /\ last.ov = "cm" /\ rev = "memory.h" /\ ~dirty
  /\ BothHeld
  /\ last.other.res = last.slot[last.j]
  /\ last.other.allocs = 0
  /\ Opt(last.other.heap, last.other.res) = Res

====
